---- MODULE Spec2Model ----
(***************************************************************************)
(* Model of the concurrent TCP prober of nexa.py: run_scan, its worker     *)
(* tasks and probe_port_once.  One asyncio event loop runs the tasks, so   *)
(* the code between two awaits is one atomic step.  Strings and byte       *)
(* strings are sequences of one-character tokens; "CR", "LF" and "TAB"     *)
(* stand for the control characters and "xFF" for an undecodable byte.     *)
(***************************************************************************)
EXTENDS Integers, Sequences, FiniteSets, TLC

\* ---------------------------------------------------------------- bounds
MaxPorts == 2
MaxConc == 2
MaxTimeout == 20

\* ------------------------------------------------------------- constants
HttpPorts == {80, 8080, 8000, 443}

\* durations are counted in tenths of a second
\* --timeout, default 2.0
DefaultTimeout == 20

\* wait_for(reader.read(4096), timeout=0.9)
BannerDeadline == 9

\* banner[:120]
MaxBanner == 120

PortUniverse == {22, 25, 80}

Whitespace == {" ", "CR", "LF", "TAB"}

Raise == <<"raise">>

\* exceptions open_connection / wait_for can raise ("Exception": any other one)
ConnectExc == {"TimeoutError", "ConnectionRefusedError", "OSError", "Exception"}

\* exceptions write, drain and read can raise
BannerExc == {"ConnectionResetError", "RuntimeError"}

\* exceptions close and wait_closed can raise
CloseExc == {"ConnectionResetError"}

ScenarioB ==
  <<"H","T","T","P","/","1",".","1"," ","2","0","0"," ","O","K","CR","LF",
    "S","e","r","v","e","r",":"," ","X","CR","LF","CR","LF">>

BannerB ==
  <<"H","T","T","P","/","1",".","1"," ","2","0","0"," ","O","K"," ",
    "S","e","r","v","e","r",":"," ","X">>

\* --------------------------------------------------------------- helpers
SeqsUpTo(S, n) == UNION {[1..k -> S] : k \in 0..n}

Range(s) == {s[k] : k \in DOMAIN s}

Distinct(s) == \A a, b \in DOMAIN s : a # b => s[a] # s[b]

\* the port lists a caller may submit: distinct ports, in any order
Requests == {s \in SeqsUpTo(PortUniverse, MaxPorts) : Distinct(s)}

ConcValues == (0 - 1)..MaxConc

\* the per-attempt timeouts a caller may pass (positive durations)
Timeouts == 1..MaxTimeout

\* the byte strings a peer may send (the empty one: end of stream)
Payloads == {<<>>, ScenarioB, <<"x", "LF", "xFF">>, <<" ", "CR">>}

\* bytes.decode(errors='replace')
Decode(d) == [k \in DOMAIN d |-> IF d[k] = "xFF" THEN "FFFD" ELSE d[k]]

RECURSIVE LStrip(_)
LStrip(s) == IF s # <<>> /\ Head(s) \in Whitespace THEN LStrip(Tail(s)) ELSE s

RECURSIVE RStrip(_)
RStrip(s) ==
  IF s # <<>> /\ s[Len(s)] \in Whitespace THEN RStrip(SubSeq(s, 1, Len(s) - 1)) ELSE s

\* str.strip()
Strip(s) == RStrip(LStrip(s))

\* str.replace(old, new) for one-character old and new
Replace(s, old, new) == [k \in DOMAIN s |-> IF s[k] = old THEN new ELSE s[k]]

\* data.decode(errors='replace').strip().replace('\r',' ').replace('\n',' ')
Normalize(d) == Replace(Replace(Strip(Decode(d)), "CR", " "), "LF", " ")

\* ----------------------------------------------------------------- state
VARIABLES
  ports,        \* the request's port list
  concurrency,  \* the request's concurrency limit
  timeout,      \* the request's per-attempt timeout
  tqdm,         \* whether the tqdm module was importable
  mainpc,       \* run_scan: "init", "gather", "returned", "raised"
  sem_value,    \* Semaphore._value
  waiters,      \* Semaphore._waiters, FIFO, task ids
  pc,           \* per task: none, created, waiting, connecting, draining,
                \*           reading, closing, done, raised
  log,          \* per task: the I/O calls the probe made and their outcomes
  data,         \* per task: local variable data of probe_port_once
  banner,       \* per task: local variable banner of probe_port_once
  exc,          \* per task: exception in flight in the banner phase
  results,      \* the dict results, in insertion order: <<port, status, banner>>
  completed     \* progress.n

vars == <<ports, concurrency, timeout, tqdm, mainpc, sem_value, waiters, pc, log, data,
          banner, exc, results, completed>>

req == <<ports, concurrency, timeout, tqdm>>

Tasks == 1..Len(ports)

TaskIds == 1..MaxPorts

\* the state of the run before run_scan is called
Fresh ==
  /\ mainpc = "init"
  /\ sem_value = 0
  /\ waiters = <<>>
  /\ pc = [i \in Tasks |-> "none"]
  /\ log = [i \in Tasks |-> {}]
  /\ data = [i \in Tasks |-> <<>>]
  /\ banner = [i \in Tasks |-> <<>>]
  /\ exc = [i \in Tasks |-> "none"]
  /\ results = <<>>
  /\ completed = 0

Init ==
  /\ ports \in Requests
  /\ concurrency \in ConcValues
  /\ timeout = DefaultTimeout
  /\ tqdm \in BOOLEAN
  /\ Fresh

\* ------------------------------------------------------------ dictionary
Keys(d) == {d[k][1] : k \in DOMAIN d}

\* mutant of DictSet: refused ports are not recorded
DictSetSkipClosed(d, k, v) ==
  IF v[1] = "CLOSED" THEN d
  ELSE IF k \in Keys(d)
  THEN [j \in DOMAIN d |-> IF d[j][1] = k THEN <<k, v[1], v[2]>> ELSE d[j]]
  ELSE Append(d, <<k, v[1], v[2]>>)

\* mutant of DictSet: results = {port: (status, banner)}, a new dict each time
DictSetFresh(d, k, v) == <<<<k, v[1], v[2]>>>>

\* results[port] = (status, banner)
DictSet(d, k, v) ==
  IF k \in Keys(d)
  THEN [j \in DOMAIN d |-> IF d[j][1] = k THEN <<k, v[1], v[2]>> ELSE d[j]]
  ELSE Append(d, <<k, v[1], v[2]>>)

DictGet(d, k) == LET j == CHOOSE j \in DOMAIN d : d[j][1] = k IN <<d[j][2], d[j][3]>>

\* ------------------------------------------------------------- semaphore
\* mutant of CanAcquire: the gate admits one task too many
CanAcquireOffByOne(v) == v >= 0

\* Semaphore.locked() is false
CanAcquire(v) == v > 0

\* mutant of Release: the permit is given back only after a successful connect
ReleaseOnOpen(v, r) == IF r # Raise /\ r[1] = "OPEN" THEN v + 1 ELSE v

\* async with sem: __aexit__ releases, whatever result r the body ended with
Release(v, r) == v + 1

\* ---------------------------------------------------------------- run_scan
\* mutant of RunScan: the gate is built with at least one permit
RunScanClamped ==
  /\ mainpc = "init"
  /\ mainpc' = "gather"
  /\ sem_value' = IF concurrency < 1 THEN 1 ELSE concurrency
  /\ pc' = [i \in Tasks |-> "created"]
  /\ UNCHANGED <<req, waiters, log, data, banner, exc, results, completed>>

\* run_scan up to the await of gather: Semaphore(concurrency) raises
\* ValueError for a negative value; one task is created per port.
RunScan ==
  /\ mainpc = "init"
  /\ IF concurrency < 0
     THEN /\ mainpc' = "raised"
          /\ UNCHANGED <<sem_value, pc>>
     ELSE /\ mainpc' = "gather"
          /\ sem_value' = concurrency
          /\ pc' = [i \in Tasks |-> "created"]
  /\ UNCHANGED <<req, waiters, log, data, banner, exc, results, completed>>

\* mutant of ProgressUpdate: only open ports are counted
ProgressUpdateOpenOnly(n, r) == IF r[1] = "OPEN" THEN n + 1 ELSE n

\* progress.update(1), after the result r was recorded
ProgressUpdate(n, r) == n + 1

\* the end of worker: r is the probe's (status, banner), or Raise; the locals
\* of the probe are gone
WorkerExit(i, r) ==
  /\ sem_value' = Release(sem_value, r)
  /\ data' = [data EXCEPT ![i] = <<>>]
  /\ banner' = [banner EXCEPT ![i] = <<>>]
  /\ exc' = [exc EXCEPT ![i] = "none"]
  /\ IF r = Raise
     THEN /\ pc' = [pc EXCEPT ![i] = "raised"]
          /\ UNCHANGED <<results, completed>>
     ELSE /\ pc' = [pc EXCEPT ![i] = "done"]
          /\ results' = DictSet(results, ports[i], r)
          /\ completed' = IF tqdm THEN ProgressUpdate(completed, r) ELSE completed
  /\ UNCHANGED <<req, mainpc, waiters>>

\* first step of a task (tasks start in creation order): sem.acquire(), then
\* open_connection under wait_for
StartTask(i) ==
  /\ mainpc = "gather"
  /\ pc[i] = "created"
  /\ \A j \in Tasks : j < i => pc[j] # "created"
  /\ IF CanAcquire(sem_value) /\ waiters = <<>>
     THEN /\ sem_value' = sem_value - 1
          /\ pc' = [pc EXCEPT ![i] = "connecting"]
          /\ UNCHANGED waiters
     ELSE /\ waiters' = Append(waiters, i)
          /\ pc' = [pc EXCEPT ![i] = "waiting"]
          /\ UNCHANGED sem_value
  /\ UNCHANGED <<req, mainpc, log, data, banner, exc, results, completed>>

\* a released permit goes to the first waiter
WakeTask(i) ==
  /\ pc[i] = "waiting"
  /\ waiters # <<>> /\ Head(waiters) = i
  /\ CanAcquire(sem_value)
  /\ sem_value' = sem_value - 1
  /\ waiters' = Tail(waiters)
  /\ pc' = [pc EXCEPT ![i] = "connecting"]
  /\ UNCHANGED <<req, mainpc, log, data, banner, exc, results, completed>>

\* mutant of Gather: asyncio.wait(tasks, return_when=FIRST_COMPLETED), which
\* raises ValueError for an empty task list
GatherFirstCompleted ==
  /\ mainpc = "gather"
  /\ \/ Tasks = {}
     \/ \E i \in Tasks : pc[i] \in {"done", "raised"}
  /\ mainpc' = IF Tasks = {} \/ \E i \in Tasks : pc[i] = "raised"
               THEN "raised" ELSE "returned"
  /\ UNCHANGED <<req, sem_value, waiters, pc, log, data, banner, exc, results,
                 completed>>

\* await asyncio.gather(*tasks): returns when every task is done, raises as
\* soon as one task has raised
Gather ==
  /\ mainpc = "gather"
  /\ \/ \E i \in Tasks : pc[i] = "raised"
     \/ \A i \in Tasks : pc[i] = "done"
  /\ mainpc' = IF \E i \in Tasks : pc[i] = "raised" THEN "raised" ELSE "returned"
  /\ UNCHANGED <<req, sem_value, waiters, pc, log, data, banner, exc, results,
                 completed>>

\* ------------------------------------------------------- probe_port_once
\* mutant of ConnectHandler: the timeout is reported in the banner
ConnectHandlerBannerText(e) ==
  CASE e = "TimeoutError" -> <<"FILTERED", <<"t", "i", "m", "e", "o", "u", "t">>>>
    [] e = "ConnectionRefusedError" -> <<"CLOSED", <<>>>>
    [] e = "OSError" -> <<"FILTERED", <<>>>>
    [] OTHER -> <<"FILTERED", <<>>>>

\* mutant of ConnectHandler: no clause for ConnectionRefusedError, a subclass
\* of OSError
ConnectHandlerNoRefused(e) ==
  CASE e = "TimeoutError" -> <<"FILTERED", <<>>>>
    [] e = "ConnectionRefusedError" -> <<"FILTERED", <<>>>>
    [] e = "OSError" -> <<"FILTERED", <<>>>>
    [] OTHER -> <<"FILTERED", <<>>>>

\* mutant of ConnectHandler: no except Exception clause
ConnectHandlerNoCatchAll(e) ==
  CASE e = "TimeoutError" -> <<"FILTERED", <<>>>>
    [] e = "ConnectionRefusedError" -> <<"CLOSED", <<>>>>
    [] e = "OSError" -> <<"FILTERED", <<>>>>
    [] OTHER -> Raise

\* mutant of ConnectHandler: the expiry of the connect deadline is raised again
ConnectHandlerTimeoutRaises(e) ==
  CASE e = "TimeoutError" -> Raise
    [] e = "ConnectionRefusedError" -> <<"CLOSED", <<>>>>
    [] e = "OSError" -> <<"FILTERED", <<>>>>
    [] OTHER -> <<"FILTERED", <<>>>>

\* the except clauses of the connect phase
ConnectHandler(e) ==
  CASE e = "TimeoutError" -> <<"FILTERED", <<>>>>
    [] e = "ConnectionRefusedError" -> <<"CLOSED", <<>>>>
    [] e = "OSError" -> <<"FILTERED", <<>>>>
    [] OTHER -> <<"FILTERED", <<>>>>

\* mutant of BannerHandler: no except clause around the banner phase
BannerHandlerReraise(e) == e

\* except Exception: pass, around the banner phase: the exception still in
\* flight after the clause ("none": swallowed)
BannerHandler(e) == "none"

\* except Exception: pass, around close and wait_closed
CloseHandler(e) == "none"

\* mutant of AfterBanner: close at the end of the try body, not in a finally
AfterBannerNoFinally(w) == IF w = "ok" THEN "close" ELSE "return"

\* what follows the try body of the banner phase, which ended with w ("ok",
\* or the exception it raised): the finally clause, on every path
AfterBanner(w) == "close"

\* mutant of ProbeReturn: the insert into results waits for a lock
ProbeReturnSuspends(i, e, b) ==
  /\ pc' = [pc EXCEPT ![i] = "recording"]
  /\ UNCHANGED <<req, mainpc, sem_value, waiters, data, banner, exc, results,
                 completed>>

\* return 'OPEN', banner (or the exception in flight goes on)
ProbeReturn(i, e, b) ==
  WorkerExit(i, IF e = "none" THEN <<"OPEN", b>> ELSE Raise)

\* the connect ended with exception e
ConnectFail(i) ==
  /\ pc[i] = "connecting"
  /\ \E e \in ConnectExc :
       /\ log' = [log EXCEPT ![i] = @ \cup {"connect:" \o e}]
       /\ WorkerExit(i, ConnectHandler(e))

\* the try body of the banner phase ended with w ("ok", or the exception it
\* raised) and banner b: except Exception: pass, then finally writer.close(),
\* which may raise, then await writer.wait_closed()
BannerExit(i, l, d, b, w) ==
  LET e == IF w = "ok" THEN "none" ELSE BannerHandler(w) IN
  IF AfterBanner(w) = "close"
  THEN \E c \in {"ok"} \cup CloseExc :
         IF c = "ok"
         THEN /\ log' = [log EXCEPT ![i] = l \cup {"close"}]
              /\ data' = [data EXCEPT ![i] = d]
              /\ banner' = [banner EXCEPT ![i] = b]
              /\ exc' = [exc EXCEPT ![i] = e]
              /\ pc' = [pc EXCEPT ![i] = "closing"]
              /\ UNCHANGED <<req, mainpc, sem_value, waiters, results, completed>>
         ELSE /\ log' = [log EXCEPT ![i] = l \cup {"close", "close:raised"}]
              /\ ProbeReturn(i, IF CloseHandler(c) = "none" THEN e ELSE c, b)
  ELSE /\ log' = [log EXCEPT ![i] = l]
       /\ ProbeReturn(i, e, b)

\* the connection is established; for an HTTP port the request is written
\* (write may raise) and drain is awaited, otherwise the read is started
ConnectEstablished(i) ==
  /\ pc[i] = "connecting"
  /\ IF ports[i] \in HttpPorts
     THEN \E w \in {"ok"} \cup BannerExc :
            IF w = "ok"
            THEN /\ log' = [log EXCEPT ![i] = @ \cup {"established", "write"}]
                 /\ pc' = [pc EXCEPT ![i] = "draining"]
                 /\ UNCHANGED <<req, mainpc, sem_value, waiters, data, banner, exc,
                                results, completed>>
            ELSE BannerExit(i, log[i] \cup {"established", "write", "write:raised"},
                            <<>>, <<>>, w)
     ELSE /\ log' = [log EXCEPT ![i] = @ \cup {"established", "read"}]
          /\ pc' = [pc EXCEPT ![i] = "reading"]
          /\ UNCHANGED <<req, mainpc, sem_value, waiters, data, banner, exc,
                         results, completed>>

\* await writer.drain() returns: the read is started
DrainDone(i) ==
  /\ pc[i] = "draining"
  /\ log' = [log EXCEPT ![i] = @ \cup {"read"}]
  /\ pc' = [pc EXCEPT ![i] = "reading"]
  /\ UNCHANGED <<req, mainpc, sem_value, waiters, data, banner, exc, results,
                 completed>>

\* mutant of DrainFail: the failure of the write is swallowed on its own and
\* the read is started
DrainFailThenRead(i) ==
  /\ pc[i] = "draining"
  /\ log' = [log EXCEPT ![i] = @ \cup {"drain:raised", "read"}]
  /\ pc' = [pc EXCEPT ![i] = "reading"]
  /\ UNCHANGED <<req, mainpc, sem_value, waiters, data, banner, exc, results,
                 completed>>

\* await writer.drain() raises
DrainFail(i) ==
  /\ pc[i] = "draining"
  /\ \E e \in BannerExc :
       BannerExit(i, log[i] \cup {"drain:raised"}, <<>>, <<>>, e)

\* reader.read(4096) returns d within the deadline (empty: end of stream)
ReadData(i) ==
  /\ pc[i] = "reading"
  /\ \E d \in Payloads :
       BannerExit(i, log[i] \cup {"read:data"}, d,
                  IF d # <<>> THEN Normalize(d) ELSE <<>>, "ok")

\* the 0.9 s deadline of the read elapses: data = b''
ReadTimeout(i) ==
  /\ pc[i] = "reading"
  /\ BannerExit(i, log[i] \cup {"read:timeout"}, <<>>, <<>>, "ok")

\* reader.read raises
ReadFail(i) ==
  /\ pc[i] = "reading"
  /\ \E e \in BannerExc :
       BannerExit(i, log[i] \cup {"read:raised"}, <<>>, <<>>, e)

\* await writer.wait_closed() returns
WaitClosedDone(i) ==
  /\ pc[i] = "closing"
  /\ log' = [log EXCEPT ![i] = @ \cup {"closed"}]
  /\ ProbeReturn(i, exc[i], banner[i])

\* await writer.wait_closed() raises
WaitClosedFail(i) ==
  /\ pc[i] = "closing"
  /\ \E c \in CloseExc :
       /\ log' = [log EXCEPT ![i] = @ \cup {"close:raised"}]
       /\ ProbeReturn(i, IF CloseHandler(c) = "none" THEN exc[i] ELSE c, banner[i])

TaskStep(i) ==
  \/ StartTask(i)
  \/ WakeTask(i)
  \/ ConnectFail(i)
  \/ ConnectEstablished(i)
  \/ DrainDone(i)
  \/ DrainFail(i)
  \/ ReadData(i)
  \/ ReadTimeout(i)
  \/ ReadFail(i)
  \/ WaitClosedDone(i)
  \/ WaitClosedFail(i)

Next ==
  \/ RunScan
  \/ Gather
  \/ \E i \in Tasks : StartTask(i)
  \/ \E i \in Tasks : WakeTask(i)
  \/ \E i \in Tasks : ConnectFail(i)
  \/ \E i \in Tasks : ConnectEstablished(i)
  \/ \E i \in Tasks : DrainDone(i)
  \/ \E i \in Tasks : DrainFail(i)
  \/ \E i \in Tasks : ReadData(i)
  \/ \E i \in Tasks : ReadTimeout(i)
  \/ \E i \in Tasks : ReadFail(i)
  \/ \E i \in Tasks : WaitClosedDone(i)
  \/ \E i \in Tasks : WaitClosedFail(i)

Spec == Init /\ [][Next]_vars

\* ---------------------------------------------------------------- claims
\* the tasks that hold a permit of the gate
Holders == {i \in Tasks : pc[i] \in {"connecting", "draining", "reading", "closing"}}

Statuses == {"OPEN", "CLOSED", "FILTERED"}

Connected(i) == "established" \in log[i]

\* C1: when run_scan returns, the result has exactly one entry per requested
\* port: as many entries as ports, and its key set is the set of the ports.
C1_OneEntryPerPort ==
  mainpc = "returned" =>
    /\ Len(results) = Len(ports)
    /\ Cardinality(Keys(results)) = Len(ports)
    /\ Keys(results) = Range(ports)

\* C1 witness: a scan of two ports submitted in descending order has returned,
\* the probes having completed in the reverse of the submission order and
\* with different outcomes.
C1_Witness ==
  /\ mainpc = "returned"
  /\ Len(ports) = 2 /\ ports[1] > ports[2]
  /\ results[1][1] = ports[2]
  /\ results[1][2] = "CLOSED" /\ results[2][2] = "OPEN"

\* C2: with a positive concurrency limit, the number of tasks that hold the
\* gate never exceeds the limit.
C2_Ceiling == concurrency > 0 => Cardinality(Holders) <= concurrency

\* C2 witness: the gate is full and a task is queued behind it.
C2_Witness ==
  /\ concurrency > 0
  /\ Cardinality(Holders) = concurrency
  /\ waiters # <<>>

\* C3: every recorded outcome has a status among OPEN, CLOSED, FILTERED and a
\* non-empty banner only with status OPEN.
C3_StatusAndBanner ==
  \A k \in DOMAIN results :
    /\ results[k][2] \in Statuses
    /\ results[k][3] # <<>> => results[k][2] = "OPEN"

\* C3 witness: a result holds an OPEN entry with a banner next to a FILTERED
\* entry.
C3_Witness ==
  /\ \E k \in DOMAIN results : results[k][2] = "OPEN" /\ results[k][3] # <<>>
  /\ \E k \in DOMAIN results : results[k][2] = "FILTERED"

\* C4: the connect outcome alone decides the status: deadline elapsed gives
\* (FILTERED, ""), refused gives (CLOSED, ""), any other failure gives
\* (FILTERED, ""), and after a failure no write, read or close is attempted;
\* only an established connection enters the banner phase.
C4_ConnectDecides ==
  \A i \in Tasks :
    /\ "connect:TimeoutError" \in log[i] =>
         pc[i] = "done" /\ DictGet(results, ports[i]) = <<"FILTERED", <<>>>>
    /\ "connect:ConnectionRefusedError" \in log[i] =>
         pc[i] = "done" /\ DictGet(results, ports[i]) = <<"CLOSED", <<>>>>
    /\ "connect:OSError" \in log[i] =>
         pc[i] = "done" /\ DictGet(results, ports[i]) = <<"FILTERED", <<>>>>
    /\ "connect:Exception" \in log[i] =>
         pc[i] = "done" /\ DictGet(results, ports[i]) = <<"FILTERED", <<>>>>
    /\ ~Connected(i) =>
         /\ log[i] \cap {"write", "read", "close"} = {}
         /\ pc[i] \notin {"draining", "reading", "closing"}
    /\ Connected(i) => \A e \in ConnectExc : ("connect:" \o e) \notin log[i]

\* C4 witness: one probe was refused and another one timed out.
C4_Witness ==
  /\ \E i \in Tasks : "connect:ConnectionRefusedError" \in log[i]
  /\ \E i \in Tasks : "connect:TimeoutError" \in log[i]

\* C5: a probe whose connect succeeded returns OPEN, whatever the write, the
\* read and the close did; after a read timeout it returns (OPEN, "").
C5_ConnectedIsOpen ==
  \A i \in Tasks :
    Connected(i) =>
      /\ pc[i] # "raised"
      /\ pc[i] = "done" => DictGet(results, ports[i])[1] = "OPEN"
      /\ pc[i] = "done" /\ "read:timeout" \in log[i] =>
           DictGet(results, ports[i]) = <<"OPEN", <<>>>>

\* C5 witness: one probe returned after a failed write and a failed close,
\* another one after a read timeout.
C5_Witness ==
  /\ \E i \in Tasks :
       pc[i] = "done" /\ {"write:raised", "close:raised"} \subseteq log[i]
  /\ \E i \in Tasks : pc[i] = "done" /\ "read:timeout" \in log[i]

\* C6: a probe whose connect succeeded has attempted to close the connection
\* when it ends, so no connection is left without a close attempt when
\* run_scan returns.
C6_CloseAttempted ==
  /\ \A i \in Tasks :
       Connected(i) /\ pc[i] \in {"done", "raised"} => "close" \in log[i]
  /\ mainpc = "returned" => \A i \in Tasks : Connected(i) => "close" \in log[i]

\* C6 witness: run_scan has returned after a probe whose drain failed and a
\* probe whose read failed.
C6_Witness ==
  /\ mainpc = "returned"
  /\ \E i \in Tasks : "drain:raised" \in log[i]
  /\ \E i \in Tasks : "read:raised" \in log[i]

\* C7: no permit is leaked: the free permits plus the holders always make up
\* the concurrency, every finished task has given its permit back, once all
\* tasks have ended all permits are free, and a queued task always has a
\* holder or a free permit ahead of it.
C7_NoPermitLeak ==
  mainpc # "init" /\ concurrency > 0 =>
    /\ sem_value + Cardinality(Holders) = concurrency
    /\ (\A i \in Tasks : pc[i] \in {"done", "raised"}) => sem_value = concurrency
    /\ waiters # <<>> => Holders # {} \/ sem_value > 0

\* C7 witness: all tasks have ended, one of them FILTERED and one CLOSED, after
\* one of them had queued at the gate.
C7_Witness ==
  /\ concurrency = 1 /\ Len(ports) = 2
  /\ \A i \in Tasks : pc[i] = "done"
  /\ \E k \in DOMAIN results : results[k][2] = "FILTERED"
  /\ \E k \in DOMAIN results : results[k][2] = "CLOSED"

\* C8: with a positive concurrency limit no error leaves a probe or run_scan,
\* and every finished port is recorded with one of the three statuses.
C8_NeverFails ==
  concurrency > 0 =>
    /\ mainpc # "raised"
    /\ \A i \in Tasks :
         /\ pc[i] # "raised"
         /\ pc[i] = "done" =>
              ports[i] \in Keys(results) /\ DictGet(results, ports[i])[1] \in Statuses

\* C8 witness: run_scan has returned although one connect failed with an
\* unexpected exception and, in another probe, the write and the close failed.
C8_Witness ==
  /\ mainpc = "returned"
  /\ \E i \in Tasks : "connect:Exception" \in log[i]
  /\ \E i \in Tasks : {"write:raised", "close:raised"} \subseteq log[i]

\* ------------------------------------------------------------- fairness
\* The event loop runs every ready task, and wait_for ends the connect and the
\* read at their deadline at the latest.  drain() and wait_closed() are awaited
\* without a deadline: when they end is up to the peer and the transport.
Scheduled(i) ==
  /\ i \in Tasks
  /\ \/ StartTask(i)
     \/ WakeTask(i)
     \/ ConnectFail(i)
     \/ ConnectEstablished(i)
     \/ ReadData(i)
     \/ ReadTimeout(i)
     \/ ReadFail(i)

FairSpec ==
  /\ Spec
  /\ WF_vars(RunScan)
  /\ WF_vars(Gather)
  /\ \A i \in TaskIds : WF_vars(Scheduled(i))

C10_BannerCollapsed ==
  /\ \A i \in Tasks : ports[i] = 80 /\ data[i] = ScenarioB => banner[i] = BannerB
  /\ \A b \in {banner[i] : i \in Tasks} \cup {results[k][3] : k \in DOMAIN results} :
       /\ \A k \in DOMAIN b : b[k] \notin {"CR", "LF"}
       /\ b # <<>> => b[1] \notin Whitespace /\ b[Len(b)] \notin Whitespace

\* the deadline expired in this step of task i
Expired(i) ==
  \/ "connect:TimeoutError" \in log'[i] \ log[i]
  \/ "read:timeout" \in log'[i] \ log[i]

\* C11: a step in which the connect or the read deadline of a task expires is
\* handled inside that task (it goes on to close, or ends with its outcome
\* recorded), leaves every other task and every other entry as they are and
\* does not end the scan; a port's status is decided by its own probe's events.
C11_TimeoutIsLocal ==
  /\ [][\A i \in Tasks : Expired(i) =>
          /\ pc'[i] \in {"closing", "done"}
          /\ mainpc' = mainpc
          /\ \A j \in Tasks \ {i} :
               /\ pc'[j] = pc[j] /\ log'[j] = log[j]
               /\ data'[j] = data[j] /\ banner'[j] = banner[j] /\ exc'[j] = exc[j]
          /\ \A k \in DOMAIN results : results'[k] = results[k]]_vars
  /\ [](\A i \in TaskIds : i \in Tasks /\ pc[i] = "done" =>
          DictGet(results, ports[i])[1] =
            IF Connected(i) THEN "OPEN"
            ELSE IF "connect:ConnectionRefusedError" \in log[i] THEN "CLOSED"
            ELSE "FILTERED")

\* C11 witness: the connect deadline of the first port expired, and the probe
\* of the other port went on and returned OPEN after its read deadline expired.
C11_Witness ==
  /\ Len(ports) = 2 /\ mainpc = "returned"
  /\ "connect:TimeoutError" \in log[1]
  /\ "read:timeout" \in log[2]
  /\ results[1][1] = ports[1]

\* C12: run_scan has returned only when every task it started is done: none is
\* waiting at the gate, probing or about to record its result.
C12_ReturnsAfterAllTasks ==
  mainpc = "returned" =>
    /\ \A i \in Tasks : pc[i] = "done"
    /\ Holders = {} /\ waiters = <<>>

\* C12 witness: run_scan has returned from a scan of two ports under a
\* concurrency of 1, in which the second task had to queue at the gate.
C12_Witness ==
  /\ mainpc = "returned"
  /\ Len(ports) = 2 /\ concurrency = 1
  /\ results[2][2] = "OPEN"

\* the tasks that end in this step
Ending == {i \in Tasks : pc[i] # "done" /\ pc'[i] = "done"}

\* C13: the result mapping is write-once per key: no step changes or removes
\* an entry, a step adds at most one entry, and the entry added is that of the
\* task that ends in the step, under its own port, which had no entry before.
C13_WriteOnce ==
  [][/\ Len(results') >= Len(results)
     /\ \A k \in DOMAIN results : results'[k] = results[k]
     /\ Len(results') <= Len(results) + 1
     /\ Len(results') = Len(results) + 1 =>
          \E i \in Ending :
            /\ Ending = {i}
            /\ results'[Len(results')][1] = ports[i]
            /\ ports[i] \notin Keys(results)
     /\ Ending # {} => Len(results') = Len(results) + 1]_vars

\* C13 witness: both entries of a scan of two ports are written, the entry of
\* the second port first.
C13_Witness ==
  /\ Len(ports) = 2 /\ Len(results) = 2
  /\ results[1][1] = ports[2] /\ results[2][1] = ports[1]

\* C14: for an empty port list and a concurrency that Semaphore accepts, no
\* task exists, the gate keeps all its permits, nothing is recorded, and
\* run_scan, once at gather, can only return, with the empty mapping.
C14_EmptyPortList ==
  ports = <<>> /\ concurrency >= 0 =>
    /\ Tasks = {} /\ pc = <<>> /\ log = <<>>
    /\ waiters = <<>>
    /\ mainpc # "init" => sem_value = concurrency
    /\ results = <<>> /\ completed = 0
    /\ mainpc \in {"init", "gather", "returned"}
    /\ mainpc = "gather" => ENABLED Gather

\* C14 witness: run_scan has returned for an empty port list and concurrency 0.
C14_Witness == ports = <<>> /\ concurrency = 0 /\ mainpc = "returned"

\* C15: with progress reporting, the completed count is the number of tasks
\* that have ended, which is the number of entries recorded so far (in
\* completion order); it never exceeds len(ports) and equals it at the return.
C15_ProgressTicks ==
  tqdm =>
    /\ completed = Cardinality({i \in Tasks : pc[i] = "done"})
    /\ completed = Len(results)
    /\ completed <= Len(ports)
    /\ mainpc = "init" => completed = 0
    /\ mainpc = "returned" => completed = Len(ports)

\* C15 witness: the first tick of a scan of two ports is for the port that was
\* submitted second, which is CLOSED.
C15_Witness ==
  /\ tqdm /\ Len(ports) = 2 /\ completed = 1
  /\ pc[2] = "done" /\ pc[1] = "connecting"
  /\ results[1][2] = "CLOSED"

\* C16 (as claimed): a task that is inside its probe and suspended is in the
\* connection establishment, in the optional write or in the banner read; in
\* particular it is not suspended in releasing the connection.
C16_ThreeSuspensionPoints ==
  \A i \in Holders : pc[i] \in {"connecting", "draining", "reading"}

\* C16 (amended): a task that has started and not ended is suspended at the
\* gate, in the connection establishment, in the drain of the optional write,
\* in the banner read or in wait_closed; the result is recorded in the step in
\* which the probe returns, so a port has an entry exactly when its task is done.
C16_SuspensionPoints ==
  \A i \in Tasks :
    /\ pc[i] \notin {"none", "created", "done", "raised"} =>
         pc[i] \in {"waiting", "connecting", "draining", "reading", "closing"}
    /\ pc[i] = "waiting" <=> i \in Range(waiters)
    /\ pc[i] = "closing" =>
         "close" \in log[i] /\ log[i] \cap {"closed", "close:raised"} = {}
    /\ pc[i] = "done" <=> ports[i] \in Keys(results)

\* C16 witness: one task is suspended in wait_closed while another one is
\* suspended at the gate.
C16_Witness ==
  \E i, j \in Tasks : pc[i] = "closing" /\ pc[j] = "waiting"

\* ------------------------------------------------------------- deadlines
\* wait_for(fut, timeout=timeout)
ConnectDeadline(t) == t

\* mutant of ReadDeadline: the read is given the timeout argument
ReadDeadlineFromTimeout(t) == t

\* wait_for(reader.read(4096), timeout=0.9)
ReadDeadline(t) == BannerDeadline

\* the deadline of the wait_for task i is suspended in
Deadline(i) ==
  IF pc[i] = "connecting" THEN ConnectDeadline(timeout) ELSE ReadDeadline(timeout)

\* the port lists main submits: sorted(set(ports))
SortedRequests == {s \in Requests : \A a, b \in DOMAIN s : a < b => s[a] < s[b]}

\* scans of a full-length sorted port list, one probe at a time, for every
\* timeout
TimerInit ==
  /\ ports \in {s \in SortedRequests : Len(s) = MaxPorts}
  /\ concurrency = 1
  /\ timeout \in Timeouts
  /\ tqdm = TRUE
  /\ Fresh

TimerSpec == TimerInit /\ [][Next]_vars

\* C17 (as claimed): for every timeout, the deadline of the banner read is
\* shorter than the deadline of the connect.
C17_ReadDeadlineShorter ==
  \A i \in Tasks : pc[i] = "reading" => Deadline(i) < ConnectDeadline(timeout)

\* C17 (amended): the connect waits under the timeout argument and the banner
\* read under 0.9 s whatever the timeout argument; the read deadline is the
\* shorter one exactly when the timeout is above 0.9 s.
C17_TwoDeadlines ==
  \A i \in Tasks :
    /\ pc[i] = "connecting" => Deadline(i) = timeout
    /\ pc[i] = "reading" =>
         /\ Deadline(i) = BannerDeadline
         /\ Deadline(i) < ConnectDeadline(timeout) <=> timeout > BannerDeadline

\* C17 witness: a probe with a timeout of 0.5 s is in its banner read.
C17_Witness ==
  /\ timeout = 5
  /\ \E i \in Tasks : pc[i] = "reading" /\ Deadline(i) > ConnectDeadline(timeout)

\* ---------------------------------------------------------------- report
\* banner[:120]
Truncate(b) == SubSeq(b, 1, IF Len(b) < MaxBanner THEN Len(b) ELSE MaxBanner)

\* main: the rows built from probe_results.items(), in the order of the dict
\* (no enrichment: the service is '')
MergedRows(res) == [k \in DOMAIN res |-> <<res[k][1], res[k][2], "", Truncate(res[k][3])>>]

\* C18: the rows of the report built from the result of a scan of a sorted port
\* list are in ascending port order, that of the submitted list (stated for
\* the scans in which no connect deadline expired, so that the order of
\* completion owes nothing to the order in which equal deadlines expire).
C18_RowsAscending ==
  /\ mainpc = "returned"
  /\ ports \in SortedRequests
  /\ \A i \in Tasks : "connect:TimeoutError" \notin log[i]
  => /\ Len(MergedRows(results)) = Len(ports)
     /\ \A k \in DOMAIN ports : MergedRows(results)[k][1] = ports[k]

\* C19: after a failed write or drain the read is never started and the probe
\* returns (OPEN, ""); a probe of a port outside the HTTP set writes nothing
\* and always starts the read, a probe of a port inside it always writes first.
C19_WriteGatesRead ==
  \A i \in Tasks :
    /\ "write:raised" \in log[i] \/ "drain:raised" \in log[i] =>
         /\ ports[i] \in HttpPorts
         /\ "read" \notin log[i]
         /\ pc[i] \in {"closing", "done"}
         /\ banner[i] = <<>>
         /\ pc[i] = "done" => DictGet(results, ports[i]) = <<"OPEN", <<>>>>
    /\ ports[i] \notin HttpPorts =>
         /\ "write" \notin log[i]
         /\ Connected(i) => "read" \in log[i]
    /\ ports[i] \in HttpPorts /\ Connected(i) => "write" \in log[i]

\* C19 witness: the probe of an HTTP port returned after its drain failed, and
\* the probe of another port returned a banner it read.
C19_Witness ==
  /\ \E i \in Tasks : pc[i] = "done" /\ "drain:raised" \in log[i]
  /\ \E i \in Tasks :
       /\ pc[i] = "done" /\ ports[i] \notin HttpPorts
       /\ DictGet(results, ports[i])[2] # <<>>

\* C20: with concurrency 0 and at least one port, no task gets past the gate:
\* no probe starts, nothing is recorded, run_scan does not return, and once all
\* tasks wait at the gate nothing can happen any more; run_scan returns for a
\* non-empty port list only with a concurrency of at least 1.
C20_ZeroConcurrencyHangs ==
  /\ concurrency = 0 /\ ports # <<>> =>
       /\ mainpc \in {"init", "gather"}
       /\ sem_value = 0
       /\ results = <<>> /\ completed = 0
       /\ \A i \in Tasks : pc[i] \in {"none", "created", "waiting"} /\ log[i] = {}
       /\ (\A i \in Tasks : pc[i] = "waiting") => ~ENABLED Next
  /\ mainpc = "returned" /\ ports # <<>> => concurrency >= 1

\* C20 witness: both tasks of a scan with concurrency 0 wait at the gate.
C20_Witness ==
  /\ concurrency = 0 /\ Len(ports) = 2
  /\ \A i \in Tasks : pc[i] = "waiting"

====
